---- MODULE Spec2Model ----
(***************************************************************************)
(* plex-rclone-manager: the layered configuration store (prm/config.py)    *)
(* and the three command handlers clean, upload and plex                   *)
(* preview-thumbnails (prm/cli.py).                                        *)
(*                                                                         *)
(* Strings are sequences of tokens.  The token "/" is the path separator,  *)
(* "~" the home marker; every other token is a separator-free piece of     *)
(* text, so string concatenation is \o and str.endswith('/') looks at the  *)
(* last token.  Adjacent non-separator tokens form one path component      *)
(* (<<"/","plex","Media">> is the string "/plexMedia").                    *)
(***************************************************************************)
EXTENDS Integers, Sequences, FiniteSets, TLC

VARIABLES
    file,            \* the config file on disk: [exists, data]
    disk,            \* entries below <plex>/Media/localhost, in os.scandir order
    _loaded,         \* Config._loaded
    _cached_config,  \* Config._cached_config (the file layer)
    _overriden,      \* Config._overriden (the override layer)
    pc,              \* "idle", or "scan" inside preview_thumbnails' walk
    call,            \* the operation last invoked, with its arguments
    sets,            \* set_value calls made since the last clear_overriden,
                     \* as of the start of the operation last invoked
    log,             \* Config calls made by the operation last invoked
    cmd,             \* command text composed by the handler last invoked
    executed,        \* commands handed to execute() by that handler
    outcome,         \* how the operation last invoked ended
    scan             \* locals and output of preview_thumbnails

vars == <<file, disk, _loaded, _cached_config, _overriden, pc, call, sets, log,
          cmd, executed, outcome, scan>>

-----------------------------------------------------------------------------
(* Strings and paths *)

Sep == "/"
None == <<"<None>">>
Truthy(v) == v # None /\ v # <<>>
EndsWithSep(v) == Len(v) > 0 /\ v[Len(v)] = Sep

\* The home directory Path.expanduser() substitutes for a leading "~".
Home == <<Sep, "home">>

RECURSIVE LeadSeps(_)
LeadSeps(v) ==
    IF v # <<>> /\ Head(v) = Sep THEN 1 + LeadSeps(Tail(v)) ELSE 0

RECURSIVE Squeeze(_)
Squeeze(v) ==
    IF v = <<>> THEN <<>>
    ELSE IF Head(v) = Sep
         THEN LET rest == Squeeze(Tail(v))
              IN  IF rest = <<>> \/ Head(rest) = Sep THEN rest ELSE <<Sep>> \o rest
         ELSE <<Head(v)>> \o Squeeze(Tail(v))

\* str(Path(v)): repeated separators collapse, a trailing separator is
\* dropped, exactly two leading separators are kept, the empty path is ".".
\* (No token is "." or "..", so there are no dot components to drop.)
PurePath(v) ==
    LET n    == LeadSeps(v)
        root == IF n = 0 THEN <<>> ELSE IF n = 2 THEN <<Sep, Sep>> ELSE <<Sep>>
        body == Squeeze(SubSeq(v, n + 1, Len(v)))
    IN  IF root = <<>> /\ body = <<>> THEN <<".">> ELSE root \o body

\* Path.expanduser(): a first component that is exactly "~" becomes the home
\* directory.
expanduser(p) ==
    IF p # <<>> /\ Head(p) = "~" /\ (Len(p) = 1 \/ p[2] = Sep)
    THEN Home \o Tail(p)
    ELSE p

\* str(Path(config_value).expanduser())
PathStr(v) == expanduser(PurePath(v))

-----------------------------------------------------------------------------
(* prm/config.py *)

ConfigKey ==
    {"rclone_remote", "local_files_path", "mount_rclone_path",
     "mount_merge_path", "download_complete_path", "plex_media_server_path"}

_path_config_values ==
    <<"local_files_path", "mount_rclone_path", "mount_merge_path",
      "download_complete_path", "plex_media_server_path">>

PathKeys == {_path_config_values[i] : i \in DOMAIN _path_config_values}

ONLY_OVERRIDEN == "ONLY_OVERRIDEN"
ONLY_CONFIG == "ONLY_CONFIG"
OVERRIDEN_THEN_CONFIG == "OVERRIDEN_THEN_CONFIG"

EmptyDict == [k \in {} |-> None]
Put(d, k, v) == [x \in (DOMAIN d) \cup {k} |-> IF x = k THEN v ELSE d[x]]
DictGet(d, k) == IF k \in DOMAIN d THEN d[k] ELSE None

\* The Config object as one value.
Cfg == [loaded |-> _loaded, cached |-> _cached_config, overriden |-> _overriden]

Ok == "ok"
MissingRequiredConfig == "MissingRequiredConfig"
InvalidPathValue == "InvalidPathValue"

\* Lines 80-84.
_set(c, config_key, value, overriden) ==
    IF overriden
    THEN [c EXCEPT !.overriden = Put(@, config_key, value)]
    ELSE [c EXCEPT !.cached = Put(@, config_key, value)]

RECURSIVE _clean_from(_, _, _)

\* Lines 52-74.  The first existing candidate file is decoded into the file
\* layer; with no candidate the file layer is left as it is.  _loaded is set
\* before _clean() runs.
_load(c) ==
    _clean_from([c EXCEPT !.cached = IF file.exists THEN file.data ELSE @,
                          !.loaded = TRUE],
                FALSE, 1)

_load_if_needed(c) ==
    IF c.loaded = FALSE THEN _load(c) ELSE [c |-> c, err |-> Ok]

\* Lines 102-105, l being what _load_if_needed left.
_get_cached(l, config_key, required) ==
    IF l.err # Ok THEN [c |-> l.c, err |-> l.err, val |-> None]
    ELSE IF required /\ ~Truthy(DictGet(l.c.cached, config_key))
    THEN [c |-> l.c, err |-> MissingRequiredConfig, val |-> None]
    ELSE [c |-> l.c, err |-> Ok, val |-> DictGet(l.c.cached, config_key)]

_get(c, config_key, required, overriden) ==
    IF config_key \in DOMAIN c.overriden
       /\ overriden \in {ONLY_OVERRIDEN, OVERRIDEN_THEN_CONFIG}
    THEN [c |-> c, err |-> Ok, val |-> c.overriden[config_key]]
    ELSE IF overriden = ONLY_OVERRIDEN
    THEN IF required
         THEN [c |-> c, err |-> MissingRequiredConfig, val |-> None]
         ELSE [c |-> c, err |-> Ok, val |-> None]
    ELSE _get_cached(_load_if_needed(c), config_key, required)

\* Lines 47-50, g being what _get returned for the i-th path-typed key.
_clean_value(g, overriden, i) ==
    IF g.err # Ok THEN [c |-> g.c, err |-> g.err]
    ELSE IF ~Truthy(g.val) THEN _clean_from(g.c, overriden, i + 1)
    ELSE IF EndsWithSep(g.val) THEN [c |-> g.c, err |-> InvalidPathValue]
    ELSE _clean_from(_set(g.c, _path_config_values[i], PathStr(g.val), overriden),
                     overriden, i + 1)

\* The loop of _clean, from the i-th path-typed key on.
_clean_from(c, overriden, i) ==
    IF i > Len(_path_config_values) THEN [c |-> c, err |-> Ok]
    ELSE _clean_value(_get(c, _path_config_values[i], FALSE,
                           IF overriden THEN ONLY_OVERRIDEN ELSE ONLY_CONFIG),
                      overriden, i)

_clean(c, overriden) == _clean_from(c, overriden, 1)

\* set_value calls self._clean() with its default overriden=False.
set_value(c, config_key, value) ==
    _clean(_set(c, config_key, value, TRUE), FALSE)

get(c, config_key, required) ==
    _get(c, config_key, required, OVERRIDEN_THEN_CONFIG)

clear_overriden_keeps(c) == c

clear_overriden(c) == [c EXCEPT !.overriden = EmptyDict]

-----------------------------------------------------------------------------
(* prm/cli.py: command text *)

FlagValidationError == "FlagValidationError"
ScanRootNotFound == "ScanRootNotFound"
ZeroDivisionError == "ZeroDivisionError"

\* One line of command text: a shell statement, or a blank line.
Stmt(kind, family, args) == [kind |-> kind, family |-> family, args |-> args]
Blank == Stmt("", "", <<>>)
Text(s) == <<s>>

RECURSIVE LStrip(_)
LStrip(t) == IF t # <<>> /\ Head(t) = Blank THEN LStrip(Tail(t)) ELSE t

RECURSIVE RStrip(_)
RStrip(t) ==
    IF t # <<>> /\ t[Len(t)] = Blank THEN RStrip(SubSeq(t, 1, Len(t) - 1)) ELSE t

\* textwrap.dedent(text).strip() + '\n': the blank first and last lines of the
\* triple-quoted literal go, the last statement ends with one newline.
process_multiline(t) == RStrip(LStrip(t))

\* A triple-quoted literal: a line break, the statements, the closing indent.
Literal(stmts) == <<Blank>> \o stmts \o <<Blank>>

AMI == "after_manual_import"
MIP == "manual_import_partials"
LSS == "local_server_setup"
PD == "plex_data"
MEDIA == "media"

\* The f-strings of clean, v being the values their config.get calls returned.
after_manual_import_text(v) ==
    <<Stmt("assign path", AMI, <<v[1]>>),
      Stmt("echo", AMI, <<Text("Deleting extra files")>>),
      Stmt("find -type f -print -delete", AMI,
           <<Text("${path}"), Text("*sample*"), Text("*.nfo"), Text("*.nzb"),
             Text("*.jpg"), Text("*.srr"), Text("*.url"), Text("*.txt")>>),
      Stmt("echo", AMI, <<Text("Deleting empty Films folders")>>),
      Stmt("find -type d -empty -print -delete", AMI, <<Text("${path}/Films")>>),
      Stmt("echo", AMI, <<Text("Deleting empty TV folders")>>),
      Stmt("find -type d -empty -print -delete", AMI, <<Text("${path}/TV")>>),
      Stmt("echo", AMI, <<Text("Deleting empty Music folders")>>),
      Stmt("find -type d -empty -print -delete", AMI, <<Text("${path}/Music")>>)>>

manual_import_partials_text(v) ==
    <<Stmt("find -type f -iname *.partial~ -not -path -print -delete", MIP,
           <<v[1], v[2] \o Text("/download/*")>>),
      Stmt("find -mindepth 1 -type d -not -path -empty -print -delete", MIP,
           <<v[3], v[4] \o Text("/download/*")>>)>>

\* The f-strings of upload.
local_server_setup_sync_text(v) ==
    <<Stmt("rclone sync", LSS,
           <<Text("~/scripts"), v[1] \o Text(":/Backups/Server/Scripts")>>),
      Blank,
      Stmt("rclone sync", LSS,
           <<Text("~/.startup"), v[2] \o Text(":/Backups/Server/Startup")>>),
      Blank,
      Stmt("rclone sync", LSS,
           <<Text("~/.shutdown"), v[3] \o Text(":/Backups/Server/Shutdown")>>)>>

local_server_setup_tar_text(v) ==
    <<Stmt("assign file_path", LSS,
           <<Text("~/tmp/plex_server_backups/dot_config/$(date)")>>),
      Stmt("mkdir -p", LSS, <<Text("${file_path}")>>),
      Stmt("tar", LSS, <<Text("${file_path}/$(date).tar.gz"), Text(".config")>>)>>

local_server_setup_move_text(v) ==
    <<Stmt("rclone move", LSS,
           <<Text("~/tmp/plex_server_backups/dot_config"),
             v[1] \o Text(":/Backups/Server/Config")>>)>>

plex_data_tar_text(v) ==
    <<Stmt("assign file_path", PD,
           <<Text("~/tmp/plex_server_backups/plex_data/$(date)")>>),
      Stmt("mkdir -p", PD, <<Text("${file_path}")>>),
      Stmt("tar", PD,
           <<Text("${file_path}/$(date).tar.gz"),
             v[1] \o <<"Media", Sep>>,
             v[2] \o <<"Metadata", Sep>>,
             v[3] \o <<"Plug-ins", Sep>>,
             v[4] \o <<"Plug-in Support", Sep>>>>)>>

plex_data_move_text(v) ==
    <<Stmt("rclone move", PD,
           <<Text("~/tmp/plex_server_backups/plex_data"),
             v[1] \o Text(":/Backups/Plex")>>)>>

media_text(v) ==
    <<Stmt("echo", MEDIA, <<Text("Moving processed content")>>),
      Stmt("rclone move", MEDIA, <<v[1], v[2] \o Text(":")>>)>>

RR == "rclone_remote"
LFP == "local_files_path"
DCP == "download_complete_path"
PMS == "plex_media_server_path"

\* The keys an f-string reads with config.get, in the order it reads them.
TextKeys(t) ==
    CASE t = "after_manual_import" -> <<DCP>>
      [] t = "manual_import_partials" -> <<LFP, LFP, LFP, LFP>>
      [] t = "local_server_setup_sync" -> <<RR, RR, RR>>
      [] t = "local_server_setup_tar" -> <<>>
      [] t = "local_server_setup_move" -> <<RR>>
      [] t = "plex_data_tar" -> <<PMS, PMS, PMS, PMS>>
      [] t = "plex_data_move" -> <<RR>>
      [] t = "media" -> <<LFP, RR>>

TextOf(t, v) ==
    CASE t = "after_manual_import" -> after_manual_import_text(v)
      [] t = "manual_import_partials" -> manual_import_partials_text(v)
      [] t = "local_server_setup_sync" -> local_server_setup_sync_text(v)
      [] t = "local_server_setup_tar" -> local_server_setup_tar_text(v)
      [] t = "local_server_setup_move" -> local_server_setup_move_text(v)
      [] t = "plex_data_tar" -> plex_data_tar_text(v)
      [] t = "plex_data_move" -> plex_data_move_text(v)
      [] t = "media" -> media_text(v)

-----------------------------------------------------------------------------
(* A handler in progress: the Config object, the Config calls it has made,  *)
(* the command text so far, the values the config.get calls of the          *)
(* expression being evaluated returned, and the exception that ended the    *)
(* handler (or Ok).  A handler is run as the sequence of its statements.    *)

LogEntry(op, key, val, err) == [op |-> op, key |-> key, val |-> val, err |-> err]

\* Each handler starts with config.clear_overriden().
Enter(c) ==
    [c |-> clear_overriden(c),
     log |-> <<LogEntry("clear_overriden", "", None, Ok)>>,
     cmd |-> <<>>, vals |-> <<>>, err |-> Ok]

AfterSet(h, config_key, value, r) ==
    [h EXCEPT !.c = r.c, !.err = r.err,
              !.log = Append(@, LogEntry("set_value", config_key, value, r.err))]

AfterGet(h, config_key, g) ==
    [h EXCEPT !.c = g.c, !.err = g.err, !.vals = Append(@, g.val),
              !.log = Append(@, LogEntry("get", config_key, g.val, g.err))]

\* The config.get(...) calls of one expression, left to right; a call that an
\* exception cut off leaves None.
RECURSIVE GetAll(_, _)
GetAll(h, keys) ==
    IF keys = <<>> THEN h
    ELSE IF h.err # Ok THEN GetAll([h EXCEPT !.vals = Append(@, None)], Tail(keys))
    ELSE GetAll(AfterGet(h, Head(keys), get(h.c, Head(keys), TRUE)), Tail(keys))

\* cmd += process_multiline(f"..."): nothing is appended when formatting raised.
AddText(h, t) ==
    IF h.err # Ok THEN h
    ELSE [h EXCEPT !.cmd = @ \o process_multiline(Literal(TextOf(t, h.vals)))]

SetX == Stmt("set -x", "", <<>>)

SetStep(config_key, value) == [op |-> "set_value", key |-> config_key, val |-> value]
StartStep == [op |-> "cmd", key |-> "", val |-> None]
TextStep(t) == [op |-> "text", key |-> t, val |-> None]
GetStep(config_key) == [op |-> "get", key |-> config_key, val |-> None]

Do(h, s) ==
    CASE s.op = "set_value" -> AfterSet(h, s.key, s.val, set_value(h.c, s.key, s.val))
      [] s.op = "cmd" -> [h EXCEPT !.cmd = <<SetX>>]
      [] s.op = "text" -> AddText(GetAll([h EXCEPT !.vals = <<>>], TextKeys(s.key)), s.key)
      [] s.op = "get" -> GetAll([h EXCEPT !.vals = <<>>], <<s.key>>)

\* The statements run in order until one raises.
RECURSIVE Run(_, _)
Run(h, steps) ==
    IF steps = <<>> \/ h.err # Ok THEN h ELSE Run(Do(h, Head(steps)), Tail(steps))

When(b, step) == IF b THEN <<step>> ELSE <<>>

-----------------------------------------------------------------------------
(* clean *)

\* Lines 91-115.
clean_steps(after_manual_import, manual_import_partials) ==
    <<StartStep>>
    \o When(after_manual_import, TextStep("after_manual_import"))
    \o When(manual_import_partials, TextStep("manual_import_partials"))

\* The handler ends after composing cmd: it makes no call to execute().
clean_return(h) ==
    [c |-> h.c, log |-> h.log, cmd |-> h.cmd, executed |-> <<>>, outcome |-> h.err]

clean(c, after_manual_import, manual_import_partials) ==
    clean_return(Run(Enter(c), clean_steps(after_manual_import, manual_import_partials)))

-----------------------------------------------------------------------------
(* upload *)

upload_flags_all_unexpanded(all_, local_server_setup, media, plex_data, no_tar) ==
    [err |-> IF (all_ /\ (local_server_setup \/ media \/ plex_data))
                \/ (~all_ /\ ~(local_server_setup \/ media \/ plex_data))
                \/ (no_tar /\ ~(local_server_setup \/ plex_data))
             THEN FlagValidationError ELSE Ok,
     local_server_setup |-> local_server_setup, media |-> media,
     plex_data |-> plex_data]

\* Lines 137-147: the flag checks, and --all expanded into the three targets.
upload_flags(all_, local_server_setup, media, plex_data, no_tar) ==
    IF all_ /\ (local_server_setup \/ media \/ plex_data)
    THEN [err |-> FlagValidationError, local_server_setup |-> local_server_setup,
          media |-> media, plex_data |-> plex_data]
    ELSE IF ~all_ /\ ~(local_server_setup \/ media \/ plex_data)
    THEN [err |-> FlagValidationError, local_server_setup |-> FALSE,
          media |-> FALSE, plex_data |-> FALSE]
    ELSE IF no_tar /\ ~(all_ \/ local_server_setup \/ plex_data)
    THEN [err |-> FlagValidationError, local_server_setup |-> local_server_setup,
          media |-> media, plex_data |-> plex_data]
    ELSE [err |-> Ok, local_server_setup |-> all_ \/ local_server_setup,
          media |-> all_ \/ media, plex_data |-> all_ \/ plex_data]

\* Lines 149-233, for the targets f.  The tar text is added when no_tar is
\* True (lines 172 and 195).
upload_steps(f, no_tar, rclone_remote, plex_media_server_path) ==
    When(Truthy(rclone_remote), SetStep(RR, rclone_remote))
    \o When(Truthy(plex_media_server_path), SetStep(PMS, plex_media_server_path))
    \o <<StartStep>>
    \o When(f.local_server_setup, TextStep("local_server_setup_sync"))
    \o When(f.local_server_setup /\ no_tar, TextStep("local_server_setup_tar"))
    \o When(f.local_server_setup, TextStep("local_server_setup_move"))
    \o When(f.plex_data /\ no_tar, TextStep("plex_data_tar"))
    \o When(f.plex_data, TextStep("plex_data_move"))
    \o When(f.media, TextStep("media"))

\* Line 235: execute(cmd), reached when nothing raised.
upload_return(h) ==
    [c |-> h.c, log |-> h.log, cmd |-> h.cmd,
     executed |-> IF h.err = Ok THEN <<h.cmd>> ELSE <<>>, outcome |-> h.err]

\* raise click.Abort()
Abort(h, err) ==
    [c |-> h.c, log |-> h.log, cmd |-> h.cmd, executed |-> <<>>, outcome |-> err]

upload_checked(c, f, no_tar, rclone_remote, plex_media_server_path) ==
    IF f.err # Ok THEN Abort(Enter(c), f.err)
    ELSE upload_return(Run(Enter(c),
                           upload_steps(f, no_tar, rclone_remote, plex_media_server_path)))

upload_sets_first(c, all_, local_server_setup, media, plex_data, no_tar, rclone_remote, plex_media_server_path) ==
    IF upload_flags(all_, local_server_setup, media, plex_data, no_tar).err # Ok
    THEN Abort(Run(Enter(c), When(Truthy(rclone_remote), SetStep(RR, rclone_remote))),
               FlagValidationError)
    ELSE upload_checked(c, upload_flags(all_, local_server_setup, media, plex_data, no_tar),
                        no_tar, rclone_remote, plex_media_server_path)

upload(c, all_, local_server_setup, media, plex_data, no_tar, rclone_remote, plex_media_server_path) ==
    upload_checked(c, upload_flags(all_, local_server_setup, media, plex_data, no_tar),
                   no_tar, rclone_remote, plex_media_server_path)

-----
(* plex preview-thumbnails *)

\* The one directory of that name on the disk: Plex is installed in /plex.
ScanRoot == <<Sep, "plex", Sep, "Media", Sep, "localhost">>

\* Path.exists()
Exists(path) == path = ScanRoot

\* Lines 255-273.
preview_thumbnails_flags(summary, print_folders, print_json, progress, update_rate) ==
    IF ~(summary \/ print_folders) THEN FlagValidationError
    ELSE IF print_json /\ ~summary THEN FlagValidationError
    ELSE IF progress /\ print_json THEN FlagValidationError
    ELSE IF progress /\ ~summary THEN FlagValidationError
    ELSE IF update_rate < 1 THEN FlagValidationError
    ELSE Ok

\* Path(config.get(ConfigKey.PLEX_MEDIA_SERVER_PATH) + 'Media/localhost')
scan_path(value) == PurePath(value \o <<"Media", Sep, "localhost">>)

NoPath == <<>>

preview_thumbnails_steps(plex_media_server_path) ==
    When(Truthy(plex_media_server_path), SetStep(PMS, plex_media_server_path))
    \o <<GetStep(PMS)>>

\* Lines 282-285, h being the handler after config.get returned.
preview_thumbnails_root(h) ==
    IF h.err # Ok
    THEN [c |-> h.c, log |-> h.log, outcome |-> h.err, path |-> NoPath]
    ELSE [c |-> h.c, log |-> h.log,
          outcome |-> IF Exists(scan_path(h.vals[1])) THEN Ok ELSE ScanRootNotFound,
          path |-> scan_path(h.vals[1])]

\* Lines 253-285: everything before the walk.
preview_thumbnails_enter(c, summary, print_folders, print_json, progress, update_rate, plex_media_server_path) ==
    IF preview_thumbnails_flags(summary, print_folders, print_json, progress,
                                update_rate) # Ok
    THEN [c |-> clear_overriden(c), log |-> Enter(c).log,
          outcome |-> FlagValidationError, path |-> NoPath]
    ELSE preview_thumbnails_root(
             Run(Enter(c), preview_thumbnails_steps(plex_media_server_path)))

\* round(missing * 100 / total, 2), in hundredths of a percent.  For the totals
\* of the model missing * 10000 / total is never halfway between two integers.
Percent(missing, total) == (2 * missing * 10000 + total) \div (2 * total)

Echo(kind, missing, total) ==
    [kind |-> kind, remaining |-> missing, processed |-> total - missing,
     total |-> total, percent |-> IF total = 0 THEN 0 ELSE Percent(missing, total)]

NoScan ==
    [path |-> NoPath, pos |-> 0, total |-> 0, missing |-> 0, last_update |-> 0,
     out |-> <<>>]

\* Kinds of directory entry.  First level: FILE (not a directory) and DIR (a
\* directory, whose entries follow it).  Second level: PLAIN (name without
\* the .bundle suffix), BUNDLE (a bundle holding Contents/Indexes/index-sd.bif)
\* and BARE (a bundle lacking it).
FILE == "file"
DIR == "dir"
PLAIN == "plain"
BUNDLE == "bundle"
BARE == "bundle without index"
SecondLevel == {PLAIN, BUNDLE, BARE}
EntryKinds == {FILE, DIR} \cup SecondLevel

\* Lines 298-304, with the bundle counted and found to lack its index.
report_progress(s, progress, update_rate) ==
    IF progress /\ s.last_update + update_rate <= s.total
    THEN [s EXCEPT !.out = Append(@, Echo("progress", s.missing, s.total)),
                   !.last_update = s.total]
    ELSE s

count_every_entry(s, entry, print_folders, progress, update_rate) ==
    [s EXCEPT !.pos = @ + 1, !.total = @ + 1]

\* Lines 287-304: one entry of the walk.
visit(s, entry, print_folders, progress, update_rate) ==
    LET n == [s EXCEPT !.pos = @ + 1]
    IN  IF entry \in {FILE, DIR, PLAIN} THEN n
        ELSE LET t == [n EXCEPT !.total = @ + 1]
             IN  IF entry = BUNDLE THEN t
                 ELSE LET m == [t EXCEPT !.missing = @ + 1]
                          p == IF print_folders
                               THEN [m EXCEPT !.out = Append(@, Echo("folder", m.missing, m.total))]
                               ELSE m
                      IN  report_progress(p, progress, update_rate)

\* Lines 306-312.
summarise(s, summary, print_json) ==
    IF ~summary THEN [s |-> s, outcome |-> Ok]
    ELSE IF print_json
    THEN [s |-> [s EXCEPT !.out = Append(@, [kind |-> "json", remaining |-> s.missing,
                                              total |-> s.total])],
          outcome |-> Ok]
    ELSE IF s.total = 0 THEN [s |-> s, outcome |-> ZeroDivisionError]
    ELSE [s |-> [s EXCEPT !.out = Append(@, Echo("summary", s.missing, s.total))],
          outcome |-> Ok]

-----------------------------------------------------------------------------
(* Inputs *)

\* The most entries (of both levels) a scanned tree holds.
MaxNodes == 6
\* The largest --update-rate tried.
MaxUpdateRate == 2

GDrive == Text("gdrive")
Backup == Text("backup")
PlexDir == <<Sep, "plex">>
PlexDirSep == <<Sep, "plex", Sep>>
AltDir == <<Sep, "alt">>

Dict4(rr, lfp, dcp, pms) ==
    [k \in {"rclone_remote", "local_files_path", "download_complete_path",
            "plex_media_server_path"} |->
        CASE k = "rclone_remote" -> rr
          [] k = "local_files_path" -> lfp
          [] k = "download_complete_path" -> dcp
          [] k = "plex_media_server_path" -> pms]

\* Config files: none; a well-formed one; one whose plex_media_server_path
\* ends with the separator; one whose first path-typed key does; one that
\* sets a single key.
Files ==
    {[exists |-> FALSE, data |-> EmptyDict],
     [exists |-> TRUE,
      data |-> Dict4(GDrive, <<Sep, "local">>, <<"~", Sep, "done">>, PlexDir)],
     [exists |-> TRUE,
      data |-> Dict4(GDrive, <<"~", Sep, "local">>, <<Sep, "done">>, PlexDirSep)],
     [exists |-> TRUE,
      data |-> Dict4(GDrive, <<Sep, "local", Sep>>, <<Sep, "done">>,
                     <<"~", Sep, "plex">>)],
     [exists |-> TRUE, data |-> [k \in {"plex_media_server_path"} |-> PlexDir]]}

\* set_value calls made directly.
SetInputs ==
    {<<"rclone_remote", Backup>>, <<"plex_media_server_path", PlexDirSep>>,
     <<"plex_media_server_path", AltDir>>}

\* --rclone-remote and --plex-media-server-path values (None: option absent).
UploadOptions == {<<None, None>>, <<Backup, AltDir>>}
ScanPathOptions == {None, PlexDir, PlexDirSep}

\* preview-thumbnails command lines: every flag combination with each path
\* option at --update-rate 1, and with --update-rate 0.
PreviewInputs ==
    {<<s, p, j, g, 1, P>> : s \in BOOLEAN, p \in BOOLEAN, j \in BOOLEAN,
                            g \in BOOLEAN, P \in ScanPathOptions}
    \cup {<<s, p, j, g, 0, PlexDirSep>> : s \in BOOLEAN, p \in BOOLEAN,
                                          j \in BOOLEAN, g \in BOOLEAN}

\* A walk lists a first-level entry and then, for a directory, its entries.
ValidWalk(w) ==
    \A i \in DOMAIN w :
        w[i] \in SecondLevel => i > 1 /\ w[i - 1] \in SecondLevel \cup {DIR}

Walks(n) ==
    {w \in UNION {[1..k -> EntryKinds] : k \in 0..n} : ValidWalk(w)}

SmallDisk == <<FILE, DIR, BUNDLE, BARE, PLAIN, DIR>>

-----------------------------------------------------------------------------
(* The process: one Config object, used directly and by the handlers *)

\* The override layer a correct store would hold after the calls of l, given
\* the set_value calls s made before them.
RECURSIVE ApplyLog(_, _)
ApplyLog(s, l) ==
    IF l = <<>> THEN s
    ELSE ApplyLog(CASE Head(l).op = "clear_overriden" -> EmptyDict
                    [] Head(l).op = "set_value" -> Put(s, Head(l).key, Head(l).val)
                    [] OTHER -> s,
                  Tail(l))

Commit(c) ==
    /\ _loaded' = c.loaded
    /\ _cached_config' = c.cached
    /\ _overriden' = c.overriden

InitWith(f, d) ==
    /\ file = f
    /\ disk = d
    /\ _loaded = FALSE
    /\ _cached_config = EmptyDict
    /\ _overriden = EmptyDict
    /\ pc = "idle"
    /\ call = [op |-> "none"]
    /\ sets = EmptyDict
    /\ log = <<>>
    /\ cmd = <<>>
    /\ executed = <<>>
    /\ outcome = Ok
    /\ scan = NoScan

Get(config_key, required) ==
    /\ pc = "idle"
    /\ \E g \in {get(Cfg, config_key, required)} :
           /\ Commit(g.c)
           /\ log' = <<LogEntry("get", config_key, g.val, g.err)>>
           /\ outcome' = g.err
    /\ call' = [op |-> "get", config_key |-> config_key, required |-> required]
    /\ sets' = ApplyLog(sets, log)
    /\ cmd' = <<>>
    /\ executed' = <<>>
    /\ scan' = NoScan
    /\ UNCHANGED <<file, disk, pc>>

SetValue(config_key, value) ==
    /\ pc = "idle"
    /\ \E r \in {set_value(Cfg, config_key, value)} :
           /\ Commit(r.c)
           /\ log' = <<LogEntry("set_value", config_key, value, r.err)>>
           /\ outcome' = r.err
    /\ call' = [op |-> "set_value", config_key |-> config_key, value |-> value]
    /\ sets' = ApplyLog(sets, log)
    /\ cmd' = <<>>
    /\ executed' = <<>>
    /\ scan' = NoScan
    /\ UNCHANGED <<file, disk, pc>>

ClearOverriden ==
    /\ pc = "idle"
    /\ Commit(clear_overriden(Cfg))
    /\ log' = <<LogEntry("clear_overriden", "", None, Ok)>>
    /\ outcome' = Ok
    /\ call' = [op |-> "clear_overriden"]
    /\ sets' = ApplyLog(sets, log)
    /\ cmd' = <<>>
    /\ executed' = <<>>
    /\ scan' = NoScan
    /\ UNCHANGED <<file, disk, pc>>

Clean(after_manual_import, manual_import_partials) ==
    /\ pc = "idle"
    /\ \E r \in {clean(Cfg, after_manual_import, manual_import_partials)} :
           /\ Commit(r.c)
           /\ log' = r.log
           /\ cmd' = r.cmd
           /\ executed' = r.executed
           /\ outcome' = r.outcome
    /\ call' = [op |-> "clean", after_manual_import |-> after_manual_import,
                manual_import_partials |-> manual_import_partials]
    /\ sets' = ApplyLog(sets, log)
    /\ scan' = NoScan
    /\ UNCHANGED <<file, disk, pc>>

Upload(all_, local_server_setup, media, plex_data, no_tar, rclone_remote, plex_media_server_path) ==
    /\ pc = "idle"
    /\ \E r \in {upload(Cfg, all_, local_server_setup, media, plex_data, no_tar,
                       rclone_remote, plex_media_server_path)} :
           /\ Commit(r.c)
           /\ log' = r.log
           /\ cmd' = r.cmd
           /\ executed' = r.executed
           /\ outcome' = r.outcome
    /\ call' = [op |-> "upload", all_ |-> all_,
                local_server_setup |-> local_server_setup, media |-> media,
                plex_data |-> plex_data, no_tar |-> no_tar,
                rclone_remote |-> rclone_remote,
                plex_media_server_path |-> plex_media_server_path]
    /\ sets' = ApplyLog(sets, log)
    /\ scan' = NoScan
    /\ UNCHANGED <<file, disk, pc>>

\* preview_thumbnails up to the walk; a failed check ends the handler here.
PreviewThumbnails(summary, print_folders, print_json, progress, update_rate, plex_media_server_path) ==
    /\ pc = "idle"
    /\ \E r \in {preview_thumbnails_enter(Cfg, summary, print_folders, print_json,
                                         progress, update_rate, plex_media_server_path)} :
           /\ Commit(r.c)
           /\ log' = r.log
           /\ outcome' = IF r.outcome = Ok THEN "running" ELSE r.outcome
           /\ pc' = IF r.outcome = Ok THEN "scan" ELSE "idle"
           /\ scan' = [NoScan EXCEPT !.path = r.path,
                                     !.pos = IF r.outcome = Ok THEN 1 ELSE 0]
    /\ call' = [op |-> "preview_thumbnails", summary |-> summary,
                print_folders |-> print_folders, print_json |-> print_json,
                progress |-> progress, update_rate |-> update_rate,
                plex_media_server_path |-> plex_media_server_path]
    /\ sets' = ApplyLog(sets, log)
    /\ cmd' = <<>>
    /\ executed' = <<>>
    /\ UNCHANGED <<file, disk>>

\* The walk takes the next entry os.scandir yields.
Walk ==
    /\ pc = "scan"
    /\ scan.pos <= Len(disk)
    /\ scan' = visit(scan, disk[scan.pos], call.print_folders, call.progress,
                     call.update_rate)
    /\ sets' = ApplyLog(sets, log)
    /\ log' = <<>>
    /\ UNCHANGED <<file, disk, _loaded, _cached_config, _overriden, pc, call, cmd,
                   executed, outcome>>

\* The walk is over: the summary, and the handler returns.
Finish ==
    /\ pc = "scan"
    /\ scan.pos > Len(disk)
    /\ \E r \in {summarise(scan, call.summary, call.print_json)} :
           /\ scan' = r.s
           /\ outcome' = r.outcome
    /\ pc' = "idle"
    /\ sets' = ApplyLog(sets, log)
    /\ log' = <<>>
    /\ UNCHANGED <<file, disk, _loaded, _cached_config, _overriden, call, cmd,
                   executed>>

Init == \E f \in Files : InitWith(f, SmallDisk)

Next ==
    \/ \E k \in ConfigKey, required \in BOOLEAN : Get(k, required)
    \/ \E kv \in SetInputs : SetValue(kv[1], kv[2])
    \/ ClearOverriden
    \/ \E a, m \in BOOLEAN : Clean(a, m)
    \/ \E a, l, m, p, n \in BOOLEAN, o \in UploadOptions :
          Upload(a, l, m, p, n, o[1], o[2])
    \/ \E i \in PreviewInputs : PreviewThumbnails(i[1], i[2], i[3], i[4], i[5], i[6])
    \/ Walk
    \/ Finish

Spec == Init /\ [][Next]_vars

\* Command lines that pass the flag checks: summary; print; summary as JSON
\* with print; progress, with and without print, at each update rate.
ScanInputs ==
    {<<TRUE, FALSE, FALSE, FALSE, 1>>, <<FALSE, TRUE, FALSE, FALSE, 1>>,
     <<TRUE, TRUE, TRUE, FALSE, 1>>}
    \cup {<<TRUE, p, FALSE, TRUE, u>> : p \in BOOLEAN, u \in 1..MaxUpdateRate}

\* The scanner alone, run once as the command line runs it, over every tree
\* of at most MaxNodes entries.
InitScan == \E d \in Walks(MaxNodes) : InitWith([exists |-> FALSE, data |-> EmptyDict], d)

NextScan ==
    \/ \E i \in ScanInputs :
          call.op = "none" /\ PreviewThumbnails(i[1], i[2], i[3], i[4], i[5], PlexDirSep)
    \/ Walk
    \/ Finish

SpecScan == InitScan /\ [][NextScan]_vars

-----------------------------------------------------------------------------
(* Properties *)

\* The override layer as the calls up to (not including) the i-th of the
\* operation last invoked should have left it.
SetsBefore(i) == ApplyLog(sets, SubSeq(log, 1, i - 1))

\* What the config file gives for key k: the value as written, or, for a
\* path-typed key, as normalised; None when the file does not set k.
FileValues(k) ==
    IF file.exists /\ k \in DOMAIN file.data
    THEN IF k \in PathKeys THEN {file.data[k], PathStr(file.data[k])} ELSE {file.data[k]}
    ELSE {None}

Kinds(c, family, kind) ==
    {i \in DOMAIN c : c[i].kind = kind /\ c[i].family = family}

\* C1: set_value of a path-typed key with a value ending in '/' fails with
\* InvalidPathValue, and after a set_value that returns normally no path-typed
\* key of the override layer ends with '/'.
C1_SetValueRejectsTrailingSep ==
    /\ \A i \in DOMAIN log :
          (log[i].op = "set_value" /\ log[i].key \in PathKeys /\ EndsWithSep(log[i].val))
              => log[i].err = InvalidPathValue
    /\ (call.op = "set_value" /\ outcome = Ok)
          => \A k \in PathKeys \cap DOMAIN _overriden : ~EndsWithSep(_overriden[k])

\* The families of the upload last invoked that make a tarball.
TarFamilies ==
    {F \in {LSS, PD} :
        call.all_ \/ (F = LSS /\ call.local_server_setup) \/ (F = PD /\ call.plex_data)}

\* C2: with no-tar the composed upload command has no tar step; without it
\* each enabled tar-producing family has exactly one tar step, placed before
\* that family's rclone move.
C2_TarStepsFollowNoTar ==
    (call.op = "upload" /\ outcome = Ok) =>
        IF call.no_tar
        THEN \A i \in DOMAIN cmd : cmd[i].kind # "tar"
        ELSE \A F \in TarFamilies :
                /\ Cardinality(Kinds(cmd, F, "tar")) = 1
                /\ \A i \in Kinds(cmd, F, "tar"), j \in Kinds(cmd, F, "rclone move") : i < j

\* C3: a clean that finishes without error has handed its composed command to
\* execute exactly once, as upload does.
C3_CleanExecutesItsCommand ==
    (call.op \in {"clean", "upload"} /\ outcome = Ok) => executed = <<cmd>>

\* C4: when the config file holds a path-typed value ending in '/', no get
\* returns such a value from the file layer: every get that resolves it from
\* the file layer fails with InvalidPathValue, also after an earlier failure.
C4_FileTrailingSepAlwaysRejected ==
    \A i \in DOMAIN log :
        (/\ log[i].op = "get"
         /\ log[i].key \notin DOMAIN SetsBefore(i)
         /\ log[i].key \in PathKeys
         /\ file.exists
         /\ log[i].key \in DOMAIN file.data
         /\ EndsWithSep(file.data[log[i].key]))
            => /\ log[i].err = InvalidPathValue
               /\ ~EndsWithSep(log[i].val)

\* C5: get returns the value of the latest set_value of the key made since the
\* last clear_overriden, otherwise the file's value; the file layer never
\* holds an overriding value.
C5_OverrideThenFile ==
    /\ \A i \in DOMAIN log :
          (log[i].op = "get" /\ log[i].err = Ok) =>
              IF log[i].key \in DOMAIN SetsBefore(i)
              THEN log[i].val = SetsBefore(i)[log[i].key]
              ELSE log[i].val \in FileValues(log[i].key)
    /\ \A k \in DOMAIN _cached_config : _cached_config[k] \in FileValues(k)

\* An override wins over a different value the file gives for the key.
C5_Witness ==
    /\ call.op = "get"
    /\ outcome = Ok
    /\ call.config_key \in DOMAIN sets
    /\ call.config_key \in DOMAIN _cached_config
    /\ _cached_config[call.config_key] # sets[call.config_key]
    /\ log[1].val = sets[call.config_key]

\* The flag combinations the upload command rejects.
UploadRejects(all_, local_server_setup, media, plex_data, no_tar) ==
    \/ all_ /\ (local_server_setup \/ media \/ plex_data)
    \/ ~(all_ \/ local_server_setup \/ media \/ plex_data)
    \/ no_tar /\ ~(all_ \/ local_server_setup \/ plex_data)

UploadValidated ==
    call.op = "upload" =>
        (outcome = FlagValidationError
            <=> UploadRejects(call.all_, call.local_server_setup, call.media,
                              call.plex_data, call.no_tar))

AllAsTheThree ==
    (pc = "idle" /\ call'.op = "upload" /\ call'.all_
     /\ ~(call'.local_server_setup \/ call'.media \/ call'.plex_data))
    => \E r \in {upload(Cfg, FALSE, TRUE, TRUE, TRUE, call'.no_tar,
                        call'.rclone_remote, call'.plex_media_server_path)} :
          /\ Commit(r.c)
          /\ log' = r.log
          /\ cmd' = r.cmd
          /\ executed' = r.executed
          /\ outcome' = r.outcome

\* C6: upload fails flag validation exactly for all with another target, for
\* no target, and for no-tar without a tar-producing target; all alone does
\* what the three targets together do.
C6_UploadFlagValidation == []UploadValidated /\ [][AllAsTheThree]_vars

C6_Witness ==
    /\ call.op = "upload"
    /\ call.all_
    /\ call.no_tar
    /\ outcome = Ok
    /\ Kinds(cmd, MEDIA, "rclone move") # {}
    /\ Kinds(cmd, PD, "rclone move") # {}

NothingComposedOrRun ==
    /\ cmd = <<>>
    /\ executed = <<>>
    /\ scan.pos = 0
    /\ scan.total = 0
    /\ scan.out = <<>>

NoOverrideWritten ==
    /\ _overriden = EmptyDict
    /\ \A i \in DOMAIN log : log[i].op # "set_value"

RunnerGetsWholeCommand ==
    executed # <<>> => (executed = <<cmd>> /\ outcome = Ok)

\* C7 as claimed: an upload or preview-thumbnails that aborts on a flag or
\* precondition check has written no override, composed no text, run nothing
\* and traversed nothing; the runner only gets a fully composed command.
C7_AbortBeforeAnyEffect ==
    /\ (call.op \in {"upload", "preview_thumbnails"}
        /\ outcome \in {FlagValidationError, ScanRootNotFound})
          => (NoOverrideWritten /\ NothingComposedOrRun)
    /\ RunnerGetsWholeCommand

\* C7 amended: that holds for the flag checks; an abort for a missing scan
\* root comes before any text, run or traversal, but after the
\* --plex-media-server-path override, from which the root is resolved.
C7_AbortBeforeComposing ==
    /\ (call.op \in {"upload", "preview_thumbnails"} /\ outcome = FlagValidationError)
          => (NoOverrideWritten /\ NothingComposedOrRun)
    /\ (call.op = "preview_thumbnails" /\ outcome = ScanRootNotFound)
          => (NothingComposedOrRun /\ DOMAIN _overriden \subseteq {PMS})
    /\ RunnerGetsWholeCommand

C7_Witness ==
    /\ call.op = "preview_thumbnails"
    /\ outcome = ScanRootNotFound
    /\ PMS \in DOMAIN _overriden
    /\ NothingComposedOrRun

ProgressEchoes == SelectSeq(scan.out, LAMBDA e : e.kind = "progress")

\* C8: with progress on and update rate N, a snapshot follows every Nth bundle
\* visited, whether or not the bundle has its index: after total bundles there
\* have been total \div N snapshots, the k-th taken at total k * N.
C8_SnapshotEveryNthBundle ==
    (call.op = "preview_thumbnails" /\ call.progress /\ scan.pos >= 1) =>
        /\ Len(ProgressEchoes) = scan.total \div call.update_rate
        /\ \A k \in DOMAIN ProgressEchoes :
              ProgressEchoes[k].total = k * call.update_rate

\* The entries the walk has passed.
Visited == SubSeq(disk, 1, scan.pos - 1)
Count(w, kinds) == Cardinality({i \in DOMAIN w : w[i] \in kinds})

\* p is missing * 100 / total rounded to two decimals, in hundredths.
IsPercent(p, missing, total) ==
    /\ 2 * (p * total - missing * 10000) <= total
    /\ 2 * (missing * 10000 - p * total) <= total

CountersMatchTree ==
    (call.op = "preview_thumbnails" /\ scan.pos >= 1) =>
        /\ scan.total = Count(Visited, {BUNDLE, BARE})
        /\ scan.missing = Count(Visited, {BARE})
        /\ 0 <= scan.missing
        /\ scan.missing <= scan.total
        /\ pc = "idle" =>
              /\ scan.total = Count(disk, {BUNDLE, BARE})
              /\ scan.missing = Count(disk, {BARE})
              /\ (outcome = Ok /\ call.summary /\ ~call.print_json) =>
                    /\ scan.out # <<>>
                    /\ scan.out[Len(scan.out)].kind = "summary"
                    /\ scan.out[Len(scan.out)].total = Count(disk, {BUNDLE, BARE})
                    /\ scan.out[Len(scan.out)].remaining = Count(disk, {BARE})
                    /\ scan.out[Len(scan.out)].processed = Count(disk, {BUNDLE})
                    /\ IsPercent(scan.out[Len(scan.out)].percent,
                                 Count(disk, {BARE}), Count(disk, {BUNDLE, BARE}))

CountersGrow ==
    (pc = "scan" /\ pc' = "scan") =>
        /\ scan'.total >= scan.total
        /\ scan'.missing >= scan.missing

\* C9: when the walk completes total is the number of .bundle entries in the
\* first-level directories, missing the number of those without the index
\* file, processed their difference; during the walk neither counter
\* decreases and 0 <= missing <= total.
C9_CountersMatchTree == []CountersMatchTree /\ [][CountersGrow]_vars

\* Five bundles, two of them without the index: 5, 2, 3 and 40.00 percent.
C9_Witness ==
    /\ call.op = "preview_thumbnails"
    /\ pc = "idle"
    /\ outcome = Ok
    /\ scan.total = 5
    /\ scan.missing = 2
    /\ scan.out # <<>>
    /\ scan.out[Len(scan.out)].kind = "summary"
    /\ scan.out[Len(scan.out)].processed = 3
    /\ scan.out[Len(scan.out)].percent = 4000

\* The value config.get returned for plex_media_server_path in the handler
\* last invoked (None if it returned none).
PlexPathRead ==
    IF \E i \in DOMAIN log : log[i].op = "get" /\ log[i].key = PMS /\ log[i].err = Ok
    THEN log[CHOOSE i \in DOMAIN log :
                log[i].op = "get" /\ log[i].key = PMS /\ log[i].err = Ok].val
    ELSE None

Under(P, name) == PurePath(P \o <<Sep, name>>)

\* C10: for a plex-media-server path P not ending in '/', preview-thumbnails
\* checks and scans P/Media/localhost, and the plex-data tar step of upload
\* names P/Media/, P/Metadata/, P/Plug-ins/ and P/Plug-in Support/.
C10_SubdirectoriesOfPlexPath ==
    (PlexPathRead # None /\ ~EndsWithSep(PlexPathRead)) =>
        /\ (call.op = "preview_thumbnails" /\ scan.path # NoPath)
              => scan.path = PurePath(PlexPathRead \o <<Sep, "Media", Sep, "localhost">>)
        /\ (call.op = "upload" /\ outcome = Ok) =>
              \A i \in Kinds(cmd, PD, "tar") :
                  /\ PurePath(cmd[i].args[2]) = Under(PlexPathRead, "Media")
                  /\ PurePath(cmd[i].args[3]) = Under(PlexPathRead, "Metadata")
                  /\ PurePath(cmd[i].args[4]) = Under(PlexPathRead, "Plug-ins")
                  /\ PurePath(cmd[i].args[5]) = Under(PlexPathRead, "Plug-in Support")

====
